---- MODULE Spec2Model ----
(***************************************************************************)
(* A model of recommender/recommender_engine.py: the data source the       *)
(* engine reads (three tables), the cache directory shared by every engine *)
(* instance, the construction of HybridRecommender instances and the       *)
(* get_recommendations request.                                            *)
(*                                                                         *)
(* Numbers: every score is an exact rational <<num, den>> (den > 0) in     *)
(* tenths of a rating point, so 3.0 is <<30, 1>> and a similarity of 0.8   *)
(* is 8.  Floating-point rounding is not modelled.                         *)
(***************************************************************************)
EXTENDS Integers, Sequences, FiniteSets, TLC

----------------------------------------------------------------------------
(* Bounds of the model *)

MaxMovies == 3
MaxRatings == 1
MaxWatch == 1
MaxEngines == 2
MaxUsers == 2
MaxN == 2

----------------------------------------------------------------------------
(* Program constants, in tenths where they are scores *)

MinRatings == 100
DefaultRating == 30
ContentScale == 5
ContentWeight == 4
CollabWeight == 6
WatchlistBoost == 2

\* RatingForm.rating: min_value, max_value and the step attribute of its
\* widget, in tenths of a rating point
MinValue == 10
MaxValue == 50
WidgetStep == 5

----------------------------------------------------------------------------
(* Sequence and rational helpers *)

Range(s) == {s[i] : i \in DOMAIN s}

Min2(a, b) == IF a <= b THEN a ELSE b

\* a slice that keeps one element too many
Head_n_OffByOne(s, n) == SubSeq(s, 1, Min2(n + 1, Len(s)))

\* s[:n] and head(n), for n >= 0
Head_n(s, n) == SubSeq(s, 1, Min2(n, Len(s)))

RECURSIVE SelectIdx(_, _, _)
SelectIdx(s, keep, i) ==
    IF i > Len(s) THEN <<>>
    ELSE IF i \in keep THEN <<s[i]>> \o SelectIdx(s, keep, i + 1)
    ELSE SelectIdx(s, keep, i + 1)

RECURSIVE SumSeq(_)
SumSeq(s) == IF s = <<>> THEN 0 ELSE Head(s) + SumSeq(Tail(s))

RLess(a, b) == a[1] * b[2] < b[1] * a[2]
REq(a, b) == a[1] * b[2] = b[1] * a[2]
RAdd(a, b) == <<a[1] * b[2] + b[1] * a[2], a[2] * b[2]>>
RMul(a, b) == <<a[1] * b[1], a[2] * b[2]>>
RInt(k) == <<k, 1>>
\* w tenths as a factor: 0.4 is RTenths(4)
RTenths(w) == <<w, 10>>

----------------------------------------------------------------------------
(* The state *)

VARIABLES
    movies,       \* table recommender_movie: rows [id, content], in id order
    ratings,      \* table recommender_rating: the set of rows [user_id, movie_id, rating]
    watchlist,    \* table recommender_watchlist: the set of rows [user_id, movie_id, entry]
    contentFile,  \* recommender/cache/content_model.pkl
    svdFile,      \* recommender/cache/svd_model.pkl
    eng,          \* the HybridRecommender instances, by construction order
    response      \* outcome of the request handled by the latest step

vars == <<movies, ratings, watchlist, contentFile, svdFile, eng, response>>

Users == 1..MaxUsers
UnknownUser == MaxUsers + 1
\* users who rate in bulk; they never request recommendations
CrowdUsers == {100 + j : j \in 1..(MinRatings - 1)}
RatingValues == {40}
SvdFits == {1, 2}

NoFile == [exists |-> FALSE]
NoModel == [present |-> FALSE]
NoResponse == [kind |-> "none"]

NewEngine ==
    [pc |-> "new", movies_df |-> <<>>, ratings_df |-> {},
     watchlist_df |-> {}, tfidf_vectorizer |-> {}, tfidf_matrix |-> <<>>,
     content_similarity |-> <<>>, svd_model |-> NoModel]

Init ==
    /\ movies = <<>>
    /\ ratings = {}
    /\ watchlist = {}
    /\ contentFile = NoFile
    /\ svdFile = NoFile
    /\ eng = [i \in 1..MaxEngines |-> NewEngine]
    /\ response = NoResponse

----------------------------------------------------------------------------
(* The data source: the application and the import scripts write the       *)
(* tables the engine reads.                                                *)

MovieIds(tbl) == {tbl[i].id : i \in DOMAIN tbl}

\* a write is of interest while an engine is still to be built from the tables
Pending == \E i \in DOMAIN eng : eng[i].pc \in {"new", "loading"}

OwnRatings == {r \in ratings : r.user_id \in Users}

\* populate_movies / Movie.objects.create: a new row with the next id; the
\* text (genre + overview) of a movie is abstracted to a content class
AddMovie ==
    /\ Pending
    /\ Len(movies) < MaxMovies
    /\ movies' = Append(movies, [id |-> Len(movies) + 1, content |-> Len(movies) + 1])
    /\ response' = NoResponse
    /\ UNCHANGED <<ratings, watchlist, contentFile, svdFile, eng>>

\* route movie/<id>/rate/: one rating per (user, movie), for a stored movie
AddRating(u, m, v) ==
    /\ Pending
    /\ Cardinality(OwnRatings) < MaxRatings
    /\ m \in MovieIds(movies)
    /\ \A r \in ratings : ~(r.user_id = u /\ r.movie_id = m)
    /\ ratings' = ratings \cup {[user_id |-> u, movie_id |-> m, rating |-> v]}
    /\ response' = NoResponse
    /\ UNCHANGED <<movies, watchlist, contentFile, svdFile, eng>>

\* MinRatings - 1 further users rate the first movie, each once
CrowdRows(m) ==
    {[user_id |-> u, movie_id |-> m, rating |-> 20] : u \in CrowdUsers}

RateCrowd ==
    /\ Pending
    /\ movies # <<>>
    /\ \A r \in ratings : r.user_id \notin CrowdUsers
    /\ ratings' = ratings \cup CrowdRows(movies[1].id)
    /\ response' = NoResponse
    /\ UNCHANGED <<movies, watchlist, contentFile, svdFile, eng>>

\* route watchlist/add/<id>/: a further row for the pair; entry numbers the
\* rows of one pair
AddWatchlist(u, m) ==
    /\ Pending
    /\ Cardinality(watchlist) < MaxWatch
    /\ m \in MovieIds(movies)
    /\ watchlist' = watchlist \cup
           {[user_id |-> u, movie_id |-> m,
             entry |-> 1 + Cardinality({w \in watchlist : w.user_id = u /\ w.movie_id = m})]}
    /\ response' = NoResponse
    /\ UNCHANGED <<movies, ratings, contentFile, svdFile, eng>>

\* HybridRecommenderTestCase.setUp: the test run works on a fresh database
\* (three movies, two ratings of the test user) and on the same cache directory
FixtureMovies ==
    <<[id |-> 1, content |-> 1], [id |-> 2, content |-> 3], [id |-> 3, content |-> 2]>>

FixtureRatings ==
    {[user_id |-> 1, movie_id |-> 1, rating |-> 45],
     [user_id |-> 1, movie_id |-> 2, rating |-> 35]}

TestSetUp ==
    /\ Pending
    /\ \A i \in DOMAIN eng : eng[i].pc # "loading"
    /\ movies # FixtureMovies \/ ratings # FixtureRatings \/ watchlist # {}
    /\ movies' = FixtureMovies
    /\ ratings' = FixtureRatings
    /\ watchlist' = {}
    /\ response' = NoResponse
    /\ UNCHANGED <<contentFile, svdFile, eng>>

----------------------------------------------------------------------------
(* Serialisation of the cache artifacts *)

RECURSIVE Flatten(_)
Flatten(rows) == IF rows = <<>> THEN <<>> ELSE Head(rows) \o Flatten(Tail(rows))

Reshape(data, nrows, ncols) ==
    [r \in 1..nrows |-> [c \in 1..ncols |-> data[(r - 1) * ncols + c]]]

\* pickle.dump of {'vectorizer', 'matrix', 'similarity'}: the ndarray is
\* written as its shape and its row-major buffer.  complete: the stream runs
\* to its end mark; intact: the bytes are the ones that were dumped (nothing
\* in the program reads intact, a pickle carries no checksum)
DumpContent(vec, mat, sim) ==
    [exists |-> TRUE, complete |-> TRUE, intact |-> TRUE, cls |-> "dict",
     vectorizer |-> vec, matrix |-> mat,
     shape |-> <<Len(sim), IF sim = <<>> THEN 0 ELSE Len(sim[1])>>,
     data |-> Flatten(sim)]

LoadSimilarity(file) == Reshape(file.data, file.shape[1], file.shape[2])

DumpSvd(model) ==
    [exists |-> TRUE, complete |-> TRUE, intact |-> TRUE, cls |-> model.cls, fit |-> model.fit]

\* pickle.load gives back an object of the class the stream names
LoadSvd(file) == [present |-> TRUE, cls |-> file.cls, fit |-> file.fit]

\* pickle.load(f) raises (EOFError, UnpicklingError) on a stream without its end
PickleLoadRaises(file) == ~file.complete

\* cache_data['vectorizer'] raises on an object that is not the stored mapping
SubscriptRaises(file) == file.cls # "dict"

----------------------------------------------------------------------------
(* Construction of an engine instance: __init__ runs _load_data (three     *)
(* queries), _build_content_model and _build_collaborative_model; other    *)
(* processes write the tables between these steps.                         *)

Abs(x) == IF x < 0 THEN 0 - x ELSE x

\* cosine similarity of the TF-IDF vectors of two texts, in tenths
CosSim(c1, c2) ==
    IF c1 = c2 THEN 10
    ELSE IF Abs(c1 - c2) = 1 THEN 8
    ELSE IF Abs(c1 - c2) = 2 THEN 1
    ELSE 0

cosine_similarity(feat) ==
    [r \in 1..Len(feat) |-> [c \in 1..Len(feat) |-> CosSim(feat[r], feat[c])]]

fit_transform(df) == [i \in 1..Len(df) |-> df[i].content]

\* _load_data, first query: the item snapshot
LoadMovies(i) ==
    /\ eng[i].pc = "new"
    /\ \A j \in 1..(i - 1) : eng[j].pc \in {"ready", "failed"}
    /\ eng' = [eng EXCEPT ![i].movies_df = movies, ![i].pc = "loading"]
    /\ response' = NoResponse
    /\ UNCHANGED <<movies, ratings, watchlist, contentFile, svdFile>>

\* _load_data, second and third query
LoadRest(e) == [e EXCEPT !.ratings_df = ratings, !.watchlist_df = watchlist]

\* _build_content_model, cache miss: fit on the item snapshot
ContentBuilt(e) ==
    [e EXCEPT !.tfidf_vectorizer = Range(fit_transform(e.movies_df)),
              !.tfidf_matrix = fit_transform(e.movies_df),
              !.content_similarity = cosine_similarity(fit_transform(e.movies_df))]

\* a cache hit that refits on the item snapshot all the same
ContentFromCache_Refit(e, file) == ContentBuilt(e)

\* _build_content_model, cache hit: the stored artifact is adopted
ContentFromCache(e, file) ==
    [e EXCEPT !.tfidf_vectorizer = file.vectorizer,
              !.tfidf_matrix = file.matrix,
              !.content_similarity = LoadSimilarity(file)]

\* _build_content_model: the instance and the file after it; on an empty item
\* snapshot TfidfVectorizer.fit_transform raises ValueError (empty vocabulary)
BuildContentModel(e, file) ==
    IF file.exists
    THEN IF PickleLoadRaises(file) \/ SubscriptRaises(file)
         THEN [e |-> e, file |-> file, raised |-> TRUE]
         ELSE [e |-> ContentFromCache(e, file), file |-> file, raised |-> FALSE]
    ELSE IF e.movies_df = <<>> THEN [e |-> e, file |-> file, raised |-> TRUE]
    ELSE [e |-> ContentBuilt(e),
          file |-> DumpContent(ContentBuilt(e).tfidf_vectorizer, ContentBuilt(e).tfidf_matrix,
                               ContentBuilt(e).content_similarity),
          raised |-> FALSE]

\* a threshold test that lets MinRatings - 1 rows through
EnoughRatings_OffByOne(df) == ~(Cardinality(df) < MinRatings - 1)

\* the threshold test of _build_collaborative_model
EnoughRatings(df) == ~(Cardinality(df) < MinRatings)

\* _build_collaborative_model; fit is the model SVD.fit arrives at
BuildCollaborativeModel(e, file, fit) ==
    IF file.exists
    THEN IF PickleLoadRaises(file)
         THEN [e |-> e, file |-> file, raised |-> TRUE]
         ELSE [e |-> [e EXCEPT !.svd_model = LoadSvd(file)], file |-> file, raised |-> FALSE]
    ELSE IF ~EnoughRatings(e.ratings_df)
         THEN [e |-> [e EXCEPT !.svd_model = NoModel], file |-> file, raised |-> FALSE]
    ELSE [e |-> [e EXCEPT !.svd_model = [present |-> TRUE, cls |-> "SVD", fit |-> fit]],
          file |-> DumpSvd([present |-> TRUE, cls |-> "SVD", fit |-> fit]),
          raised |-> FALSE]

\* the rest of __init__: the two remaining queries and the two model builders;
\* an exception of a builder leaves __init__ and no instance is bound
Construct(i) ==
    /\ eng[i].pc = "loading"
    /\ response' = NoResponse
    /\ LET content == BuildContentModel(LoadRest(eng[i]), contentFile)
       IN  IF content.raised
           THEN /\ eng' = [eng EXCEPT ![i] = [content.e EXCEPT !.pc = "failed"]]
                /\ UNCHANGED <<contentFile, svdFile>>
           ELSE \E fit \in SvdFits :
                LET collab == BuildCollaborativeModel(content.e, svdFile, fit)
                IN  /\ eng' = [eng EXCEPT ![i] =
                                  [collab.e EXCEPT !.pc = IF collab.raised THEN "failed" ELSE "ready"]]
                    /\ contentFile' = content.file
                    /\ svdFile' = collab.file
    /\ UNCHANGED <<movies, ratings, watchlist>>

----------------------------------------------------------------------------
(* Scoring.  Positions are the row labels of movies_df, counted from 1.    *)

\* movies_df[movies_df['id'] == movie_id].index
IndexOf(df, movie_id) == {p \in DOMAIN df : df[p].id = movie_id}

FirstOf(S) == CHOOSE p \in S : \A q \in S : p <= q

\* the positions looked up for the rated ids that are in the item snapshot
RECURSIVE RatedIdx(_, _)
RatedIdx(df, rated_movies) ==
    IF rated_movies = <<>> THEN <<>>
    ELSE IF IndexOf(df, Head(rated_movies)) # {}
         THEN <<FirstOf(IndexOf(df, Head(rated_movies)))>> \o RatedIdx(df, Tail(rated_movies))
         ELSE RatedIdx(df, Tail(rated_movies))

InMatrix(sim, r, c) == r \in DOMAIN sim /\ c \in DOMAIN sim[r]

\* content_similarity[movie_idx, rated_idx[0]] raises IndexError out of bounds
ContentRaises(e, movie_idx, rated_movies) ==
    \E k \in DOMAIN RatedIdx(e.movies_df, rated_movies) :
        ~InMatrix(e.content_similarity, movie_idx, RatedIdx(e.movies_df, rated_movies)[k])

\* _get_content_scores: np.mean(similarities) if similarities else 0
ContentScores(e, movie_idx, rated_movies) ==
    LET idx == RatedIdx(e.movies_df, rated_movies)
        similarities == [k \in DOMAIN idx |-> e.content_similarity[movie_idx][idx[k]]]
    IN  IF similarities # <<>> THEN <<SumSeq(similarities), Len(similarities)>>
        ELSE RInt(0)

\* svd_model.predict: the estimate of a trained model, clipped to the rating
\* scale (1, 5); an object of another class has no predict (AttributeError)
SvdPredict(model, user_id, movie_id) ==
    [raised |-> model.cls # "SVD",
     est |-> IF model.fit = 1 THEN 35 ELSE 10 + 10 * ((user_id + 2 * movie_id) % 5)]

\* _get_collaborative_score
CollaborativeScore(e, user_id, movie_id) ==
    IF ~e.svd_model.present THEN RInt(DefaultRating)
    ELSE IF SvdPredict(e.svd_model, user_id, movie_id).raised THEN RInt(DefaultRating)
    ELSE RInt(SvdPredict(e.svd_model, user_id, movie_id).est)

\* a membership test that forgets the user
IsInWatchlist_AnyUser(e, user_id, movie_id) ==
    \E w \in e.watchlist_df : w.movie_id = movie_id

\* _is_in_watchlist
IsInWatchlist(e, user_id, movie_id) ==
    \E w \in e.watchlist_df : w.user_id = user_id /\ w.movie_id = movie_id

\* the hybrid score of one candidate, lines 225-231
HybridScore(content_score_normalized, collab_score, in_watchlist) ==
    LET hybrid_score == RAdd(RMul(RTenths(ContentWeight), content_score_normalized),
                             RMul(RTenths(CollabWeight), collab_score))
    IN  IF in_watchlist THEN RAdd(hybrid_score, RInt(WatchlistBoost)) ELSE hybrid_score

\* one pass of the loop over unrated_movies: the appended record
HybridRecord(e, user_id, movie_idx, rated_movies) ==
    LET movie_id == e.movies_df[movie_idx].id
        content_score_normalized ==
            RMul(ContentScores(e, movie_idx, rated_movies), RInt(ContentScale))
        collab_score == CollaborativeScore(e, user_id, movie_id)
    IN  [movie_id |-> movie_id,
         content_score |-> content_score_normalized,
         collab_score |-> collab_score,
         hybrid_score |-> HybridScore(content_score_normalized, collab_score,
                                      IsInWatchlist(e, user_id, movie_id)),
         in_watchlist |-> IsInWatchlist(e, user_id, movie_id)]

\* an insertion that puts a record before the records of equal score
RECURSIVE InsertDesc_Unstable(_, _)
InsertDesc_Unstable(sorted, rec) ==
    IF sorted = <<>> THEN <<rec>>
    ELSE IF ~RLess(rec.hybrid_score, Head(sorted).hybrid_score)
         THEN <<rec>> \o sorted
         ELSE <<Head(sorted)>> \o InsertDesc_Unstable(Tail(sorted), rec)

\* list.sort(key=hybrid_score, reverse=True): stable, equal keys keep their order
RECURSIVE InsertDesc(_, _)
InsertDesc(sorted, rec) ==
    IF sorted = <<>> THEN <<rec>>
    ELSE IF RLess(Head(sorted).hybrid_score, rec.hybrid_score)
         THEN <<rec>> \o sorted
         ELSE <<Head(sorted)>> \o InsertDesc(Tail(sorted), rec)

RECURSIVE SortDesc(_, _)
SortDesc(done, recs) ==
    IF recs = <<>> THEN done ELSE SortDesc(InsertDesc(done, Head(recs)), Tail(recs))

\* recommendations[:n]
Slice(recs, n) == Head_n(recs, n)

----------------------------------------------------------------------------
(* Cold start: _get_popular_movies *)

Injective(S, k) == {s \in [1..k -> S] : \A a, b \in 1..k : a # b => s[a] # s[b]}

\* groupby('movie_id'): the ids that have a rating row
RatedKeys(df) == {r.movie_id : r \in df}

RowsOf(df, movie_id) == {r \in df : r.movie_id = movie_id}

\* the sum of the ratings of a set of rows, value by value
RECURSIVE SumByValue(_, _)
SumByValue(rows, values) ==
    IF values = {} THEN 0
    ELSE LET v == CHOOSE x \in values : TRUE
         IN  v * Cardinality({r \in rows : r.rating = v}) + SumByValue(rows, values \ {v})

SumRatings(rows) == SumByValue(rows, {r.rating : r \in rows})

\* a popularity that counts the ratings and forgets their mean
Popularity_CountOnly(df, movie_id) == RInt(Cardinality(RowsOf(df, movie_id)))

\* movie_ratings_count * movie_avg_rating
Popularity(df, movie_id) ==
    LET count == Cardinality(RowsOf(df, movie_id))
    IN  RMul(RInt(count), <<SumRatings(RowsOf(df, movie_id)), count>>)

\* sort_values(ascending=False): any order of the keys that is non-increasing
\* (the sort is not stable)
PopularityOrders(df) ==
    {s \in Injective(RatedKeys(df), Cardinality(RatedKeys(df))) :
        \A a, b \in DOMAIN s :
            a < b => ~RLess(Popularity(df, s[a]), Popularity(df, s[b]))}

ListOutcome(path, ids, recs) ==
    [kind |-> "list", path |-> path, ids |-> ids, recs |-> recs, error |-> ""]

ErrorOutcome(path, error) ==
    [kind |-> "error", path |-> path, ids |-> <<>>, recs |-> <<>>, error |-> error]

\* the outcomes of _get_popular_movies(n)
PopularMovies(e, n) ==
    IF Cardinality(e.ratings_df) = 0
    THEN \* movies_df.sample(n=n): n distinct rows, or ValueError when n is larger
         IF n > Len(e.movies_df) THEN {ErrorOutcome("random", "ValueError")}
         ELSE {ListOutcome("random", [k \in 1..n |-> e.movies_df[s[k]].id], <<>>) :
                  s \in Injective(DOMAIN e.movies_df, n)}
    ELSE {ListOutcome("popular", Head_n(s, n), <<>>) : s \in PopularityOrders(e.ratings_df)}

----------------------------------------------------------------------------
(* get_recommendations *)

UserRatings(e, user_id) == {r \in e.ratings_df : r.user_id = user_id}

\* the rows of a user as a list (the mean taken over it does not depend on the order)
RECURSIVE RowList(_)
RowList(rows) ==
    IF rows = {} THEN <<>>
    ELSE LET r == CHOOSE x \in rows : \A y \in rows : x.movie_id <= y.movie_id
         IN  <<r>> \o RowList(rows \ {r})

RatedMovieIds(e, user_id) ==
    [k \in DOMAIN RowList(UserRatings(e, user_id)) |->
        RowList(UserRatings(e, user_id))[k].movie_id]

\* the loop run over every row of movies_df, rated or not
UnratedMovies_NoFilter(e, rated_movie_ids) == [p \in DOMAIN e.movies_df |-> p]

\* movies_df[~movies_df['id'].isin(rated_movie_ids)], as positions in row order
UnratedMovies(e, rated_movie_ids) ==
    SelectIdx([p \in DOMAIN e.movies_df |-> p],
              {p \in DOMAIN e.movies_df : e.movies_df[p].id \notin Range(rated_movie_ids)}, 1)

TopRecommendations(recs, n) ==
    [k \in DOMAIN Slice(SortDesc(<<>>, recs), n) |-> Slice(SortDesc(<<>>, recs), n)[k].movie_id]

HybridOutcome(e, user_id, n) ==
    LET rated_movie_ids == RatedMovieIds(e, user_id)
        unrated_movies == UnratedMovies(e, rated_movie_ids)
    IN  IF \E k \in DOMAIN unrated_movies : ContentRaises(e, unrated_movies[k], rated_movie_ids)
        THEN ErrorOutcome("hybrid", "IndexError")
        ELSE LET recommendations ==
                     [k \in DOMAIN unrated_movies |->
                         HybridRecord(e, user_id, unrated_movies[k], rated_movie_ids)]
             IN  ListOutcome("hybrid", TopRecommendations(recommendations, n),
                             recommendations)

GetRecommendations(e, user_id, n) ==
    IF Cardinality(UserRatings(e, user_id)) = 0
    THEN PopularMovies(e, n)
    ELSE {HybridOutcome(e, user_id, n)}

\* a request that reads the rating and watchlist tables again once it has
\* answered
Request_Refreshing(i, user_id, n) ==
    /\ eng[i].pc = "ready"
    /\ \A j \in (i + 1)..MaxEngines : eng[j].pc = "new"
    /\ response.kind = "none"
    /\ \E o \in GetRecommendations(eng[i], user_id, n) :
           response' = [kind |-> o.kind, path |-> o.path, ids |-> o.ids, recs |-> o.recs,
                        error |-> o.error, eng |-> i, user |-> user_id, n |-> n]
    /\ eng' = [eng EXCEPT ![i] = LoadRest(eng[i])]
    /\ UNCHANGED <<movies, ratings, watchlist, contentFile, svdFile>>

\* a request served by instance i; the instance serves until the next one is
\* constructed, and one request is handled at a time
Request(i, user_id, n) ==
    /\ eng[i].pc = "ready"
    /\ \A j \in (i + 1)..MaxEngines : eng[j].pc = "new"
    /\ response.kind = "none"
    /\ \E o \in GetRecommendations(eng[i], user_id, n) :
           response' = [kind |-> o.kind, path |-> o.path, ids |-> o.ids, recs |-> o.recs,
                        error |-> o.error, eng |-> i, user |-> user_id, n |-> n]
    /\ UNCHANGED <<movies, ratings, watchlist, contentFile, svdFile, eng>>

\* the caller takes the outcome
Return ==
    /\ response.kind # "none"
    /\ response' = NoResponse
    /\ UNCHANGED <<movies, ratings, watchlist, contentFile, svdFile, eng>>

----------------------------------------------------------------------------

Next ==
    \/ AddMovie
    \/ \E u \in Users, m \in 1..MaxMovies, v \in RatingValues : AddRating(u, m, v)
    \/ RateCrowd
    \/ \E u \in Users, m \in 1..MaxMovies : AddWatchlist(u, m)
    \/ TestSetUp
    \/ \E i \in 1..MaxEngines : LoadMovies(i)
    \/ \E i \in 1..MaxEngines : Construct(i)
    \/ \E i \in 1..MaxEngines, u \in 1..UnknownUser, n \in 0..MaxN : Request(i, u, n)
    \/ Return

Spec == Init /\ [][Next]_vars

----------------------------------------------------------------------------
(* Damaged cache files.  Nothing but the existence of a file is tested     *)
(* before it is loaded, so what a damaged file does to a construction is   *)
(* what pickle.load does with its bytes: a stream cut short (a dump that   *)
(* was interrupted) raises, changed bytes inside the array buffer or a     *)
(* well-formed stream of another object load without complaint.            *)

ContentDamages == {"truncated", "payload"}
SvdDamages == {"truncated", "foreign"}

DamageContent(kind) ==
    /\ Pending
    /\ \A i \in DOMAIN eng : eng[i].pc # "loading"
    /\ contentFile.exists /\ contentFile.intact
    /\ contentFile' =
          IF kind = "truncated"
          THEN [contentFile EXCEPT !.complete = FALSE, !.intact = FALSE,
                                   !.data = SubSeq(@, 1, Len(@) - 1)]
          ELSE [contentFile EXCEPT !.intact = FALSE, !.data = [@ EXCEPT ![1] = 0]]
    /\ response' = NoResponse
    /\ UNCHANGED <<movies, ratings, watchlist, svdFile, eng>>

DamageSvd(kind) ==
    /\ Pending
    /\ \A i \in DOMAIN eng : eng[i].pc # "loading"
    /\ svdFile.exists /\ svdFile.intact
    /\ svdFile' =
          IF kind = "truncated"
          THEN [svdFile EXCEPT !.complete = FALSE, !.intact = FALSE]
          ELSE [svdFile EXCEPT !.intact = FALSE, !.cls = "dict"]
    /\ response' = NoResponse
    /\ UNCHANGED <<movies, ratings, watchlist, contentFile, eng>>

NextDamage ==
    \/ AddMovie
    \/ \E u \in Users, m \in 1..MaxMovies, v \in RatingValues : AddRating(u, m, v)
    \/ RateCrowd
    \/ \E kind \in ContentDamages : DamageContent(kind)
    \/ \E kind \in SvdDamages : DamageSvd(kind)
    \/ \E i \in 1..MaxEngines : LoadMovies(i)
    \/ \E i \in 1..MaxEngines : Construct(i)
    \/ \E i \in 1..MaxEngines, u \in 1..UnknownUser, n \in 0..MaxN : Request(i, u, n)
    \/ Return

SpecDamage == Init /\ [][NextDamage]_vars

----------------------------------------------------------------------------
(* Constructions that run at the same time (two worker processes starting  *)
(* up).  __init__ is taken line by line where it touches the cache: the    *)
(* existence test with the load or the build that follows it, the          *)
(* open(cache_file, 'wb') that empties the file, and the pickle.dump that  *)
(* fills it.  The code takes no lock and writes the file in place.         *)

\* __init__ up to _load_data
BeginInit(i) ==
    /\ eng[i].pc = "new"
    /\ eng' = [eng EXCEPT ![i] = [LoadRest([eng[i] EXCEPT !.movies_df = movies])
                                     EXCEPT !.pc = "content"]]
    /\ UNCHANGED <<movies, ratings, watchlist, contentFile, svdFile, response>>

\* a file opened with 'wb' and not yet written: it exists and it is empty
OpenedForWrite(cls) ==
    [exists |-> TRUE, complete |-> FALSE, intact |-> FALSE, cls |-> cls,
     vectorizer |-> {}, matrix |-> <<>>, shape |-> <<0, 0>>, data |-> <<>>, fit |-> 0]

\* _build_content_model up to the cache write: cache_file.exists(), then the
\* load, or the fit on the own item snapshot
ContentChecked(e, file) ==
    IF file.exists
    THEN IF PickleLoadRaises(file) \/ SubscriptRaises(file)
         THEN [e EXCEPT !.pc = "failed"]
         ELSE [ContentFromCache(e, file) EXCEPT !.pc = "svd"]
    ELSE IF e.movies_df = <<>> THEN [e EXCEPT !.pc = "failed"]
    ELSE [ContentBuilt(e) EXCEPT !.pc = "content_open"]

\* an existence test that waits while another construction is between its
\* own test and the end of its write
ContentCheck_Locked(i) ==
    /\ eng[i].pc = "content"
    /\ \A j \in DOMAIN eng : j # i => eng[j].pc \notin {"content_open", "content_dump"}
    /\ eng' = [eng EXCEPT ![i] = ContentChecked(eng[i], contentFile)]
    /\ UNCHANGED <<movies, ratings, watchlist, contentFile, svdFile, response>>

ContentCheck(i) ==
    /\ eng[i].pc = "content"
    /\ eng' = [eng EXCEPT ![i] = ContentChecked(eng[i], contentFile)]
    /\ UNCHANGED <<movies, ratings, watchlist, contentFile, svdFile, response>>

\* open(cache_file, 'wb')
ContentOpen(i) ==
    /\ eng[i].pc = "content_open"
    /\ contentFile' = OpenedForWrite("dict")
    /\ eng' = [eng EXCEPT ![i].pc = "content_dump"]
    /\ UNCHANGED <<movies, ratings, watchlist, svdFile, response>>

\* pickle.dump(cache_data, f)
ContentDump(i) ==
    /\ eng[i].pc = "content_dump"
    /\ contentFile' = DumpContent(eng[i].tfidf_vectorizer, eng[i].tfidf_matrix,
                                  eng[i].content_similarity)
    /\ eng' = [eng EXCEPT ![i].pc = "svd"]
    /\ UNCHANGED <<movies, ratings, watchlist, svdFile, response>>

\* _build_collaborative_model up to the cache write
SvdCheck(i) ==
    /\ eng[i].pc = "svd"
    /\ \E fit \in SvdFits :
          eng' = [eng EXCEPT ![i] =
             IF svdFile.exists
             THEN IF PickleLoadRaises(svdFile)
                  THEN [eng[i] EXCEPT !.pc = "failed"]
                  ELSE [eng[i] EXCEPT !.svd_model = LoadSvd(svdFile), !.pc = "ready"]
             ELSE IF ~EnoughRatings(eng[i].ratings_df)
                  THEN [eng[i] EXCEPT !.svd_model = NoModel, !.pc = "ready"]
             ELSE [eng[i] EXCEPT !.svd_model = [present |-> TRUE, cls |-> "SVD", fit |-> fit],
                                 !.pc = "svd_open"]]
    /\ UNCHANGED <<movies, ratings, watchlist, contentFile, svdFile, response>>

\* open(cache_file, 'wb')
SvdOpen(i) ==
    /\ eng[i].pc = "svd_open"
    /\ svdFile' = OpenedForWrite("SVD")
    /\ eng' = [eng EXCEPT ![i].pc = "svd_dump"]
    /\ UNCHANGED <<movies, ratings, watchlist, contentFile, response>>

\* pickle.dump(self.svd_model, f)
SvdDump(i) ==
    /\ eng[i].pc = "svd_dump"
    /\ svdFile' = DumpSvd(eng[i].svd_model)
    /\ eng' = [eng EXCEPT ![i].pc = "ready"]
    /\ UNCHANGED <<movies, ratings, watchlist, contentFile, response>>

NextRace ==
    \/ AddMovie
    \/ \E u \in Users, m \in 1..MaxMovies, v \in RatingValues : AddRating(u, m, v)
    \/ RateCrowd
    \/ \E i \in 1..MaxEngines : BeginInit(i)
    \/ \E i \in 1..MaxEngines : ContentCheck(i)
    \/ \E i \in 1..MaxEngines : ContentOpen(i)
    \/ \E i \in 1..MaxEngines : ContentDump(i)
    \/ \E i \in 1..MaxEngines : SvdCheck(i)
    \/ \E i \in 1..MaxEngines : SvdOpen(i)
    \/ \E i \in 1..MaxEngines : SvdDump(i)

SpecRace == Init /\ [][NextRace]_vars

----------------------------------------------------------------------------
(* RatingForm: what the rating route validates before a rating is stored.  *)

\* what a client submits as 'rating': a number, in tenths, or other text
FormInputs ==
    [kind : {"number"}, tenths : (MinValue - WidgetStep)..(MaxValue + WidgetStep)]
        \cup {[kind |-> "text", tenths |-> 0], [kind |-> "empty", tenths |-> 0]}

\* forms.FloatField(min_value=1.0, max_value=5.0): a required field, the text
\* converted by float(), then the minimum and the maximum validator; the
\* widget's attrs are rendered into the page and take no part in cleaning
RatingFormClean(input) ==
    IF input.kind = "empty" THEN [valid |-> FALSE, rating |-> 0]
    ELSE IF input.kind = "text" THEN [valid |-> FALSE, rating |-> 0]
    ELSE IF input.tenths < MinValue THEN [valid |-> FALSE, rating |-> 0]
    ELSE IF input.tenths > MaxValue THEN [valid |-> FALSE, rating |-> 0]
    ELSE [valid |-> TRUE, rating |-> input.tenths]

\* route movie/<id>/rate/: the submitted form is cleaned and, when valid, the
\* rating of the pair is stored
SubmitRating(u, m, input) ==
    /\ response.kind = "none"
    /\ Cardinality(OwnRatings) < MaxRatings
    /\ m \in MovieIds(movies)
    /\ \A r \in ratings : ~(r.user_id = u /\ r.movie_id = m)
    /\ response' = [kind |-> "form", input |-> input, valid |-> RatingFormClean(input).valid]
    /\ ratings' = IF RatingFormClean(input).valid
                  THEN ratings \cup {[user_id |-> u, movie_id |-> m,
                                      rating |-> RatingFormClean(input).rating]}
                  ELSE ratings
    /\ UNCHANGED <<movies, watchlist, contentFile, svdFile, eng>>

NextForm ==
    \/ AddMovie
    \/ \E u \in Users, m \in 1..MaxMovies, input \in FormInputs : SubmitRating(u, m, input)
    \/ Return

SpecForm == Init /\ [][NextForm]_vars

----------------------------------------------------------------------------
(* Properties.  They read the outcome of the latest request and the        *)
(* snapshots of the instance that served it.                               *)

Served == eng[response.eng]

IsList == response.kind = "list"

\* the item identifiers the requesting user has a rating for, in the snapshot
RatedBy(e, u) == {r.movie_id : r \in {x \in e.ratings_df : x.user_id = u}}

CatalogIds(e) == {e.movies_df[p].id : p \in DOMAIN e.movies_df}

NoDuplicates(s) == \A a, b \in DOMAIN s : a # b => s[a] # s[b]

\* C1: on the hybrid path no returned identifier is one the requesting user has
\* a rating for in the rating snapshot
C1_HybridExcludesRated ==
    (IsList /\ response.path = "hybrid") =>
        \A k \in DOMAIN response.ids : response.ids[k] \notin RatedBy(Served, response.user)

\* a hybrid request that returns items while the user has rated an item of the catalog
C1_Witness ==
    /\ IsList /\ response.path = "hybrid"
    /\ response.ids # <<>>
    /\ RatedBy(Served, response.user) \cap CatalogIds(Served) # {}

\* C2: a request with n >= 0 that returns a list returns at most n elements,
\* on the hybrid, the popularity and the random path
C2_AtMostN == IsList => Len(response.ids) <= response.n

\* a hybrid request with more candidates than n, cut to n
C2_Witness ==
    /\ IsList /\ response.path = "hybrid"
    /\ response.n > 0
    /\ Len(response.recs) > response.n
    /\ Len(response.ids) = response.n

\* the cut on the popularity path
C2_WitnessPopular ==
    /\ IsList /\ response.path = "popular"
    /\ Cardinality({r.movie_id : r \in Served.ratings_df}) > response.n
    /\ Len(response.ids) = response.n

\* C3: every returned list is duplicate-free and holds only identifiers of the
\* item snapshot, on every path
C3_UniqueCatalogIds ==
    IsList =>
        /\ NoDuplicates(response.ids)
        /\ \A k \in DOMAIN response.ids : response.ids[k] \in CatalogIds(Served)

\* C3 restricted to the hybrid and the random path
C3_HoldsOffPopular ==
    (IsList /\ response.path # "popular") =>
        /\ NoDuplicates(response.ids)
        /\ \A k \in DOMAIN response.ids : response.ids[k] \in CatalogIds(Served)

Answered == response.kind # "none"

ColdUser == \A r \in Served.ratings_df : r.user_id # response.user

\* C4: a request of a user without a rating in the snapshot (a user unknown to
\* the snapshot included) is never an error and takes the cold-start path, by
\* popularity, or at random when the rating snapshot is empty; no hybrid score
\* is computed and the watchlist does not change the outcome.  A user with a
\* rating takes the hybrid path
C4_PathSelection ==
    Answered =>
        IF ColdUser
        THEN /\ response.kind = "list"
             /\ response.path = (IF Served.ratings_df = {} THEN "random" ELSE "popular")
             /\ response.recs = <<>>
             /\ PopularMovies(Served, response.n)
                    = PopularMovies([Served EXCEPT !.watchlist_df = {}], response.n)
        ELSE response.path = "hybrid"

\* C4 with the error of the random sample set aside: the path selection itself
C4_PathSelectionApartFromSample ==
    Answered =>
        IF ColdUser
        THEN /\ \/ response.kind = "list"
                \/ /\ response.error = "ValueError"
                   /\ Served.ratings_df = {}
                   /\ response.n > Len(Served.movies_df)
             /\ response.path = (IF Served.ratings_df = {} THEN "random" ELSE "popular")
             /\ response.recs = <<>>
             /\ PopularMovies(Served, response.n)
                    = PopularMovies([Served EXCEPT !.watchlist_df = {}], response.n)
        ELSE response.path = "hybrid"

\* the candidates a request may return: the unrated items of the catalog for a
\* user with ratings, the whole catalog on a cold start
Eligible ==
    IF ColdUser THEN CatalogIds(Served)
    ELSE CatalogIds(Served) \ RatedBy(Served, response.user)

\* C5: when n is at least the number of eligible candidates, the request
\* returns all of them, without padding and without an error, on every path
C5_AllEligibleWhenNExceeds ==
    (Answered /\ response.n >= Cardinality(Eligible)) =>
        /\ response.kind = "list"
        /\ Range(response.ids) = Eligible
        /\ Len(response.ids) = Cardinality(Eligible)

\* C5 on the random path alone: the sample of more rows than the catalog holds
C5_RandomPathNoError ==
    (Answered /\ response.path = "random" /\ response.n > Len(Served.movies_df)) =>
        response.kind = "list"

Ready(i) == eng[i].pc = "ready"

AllUsers == 1..UnknownUser

\* every collaborative score of an instance is exactly 3.0
NeutralScores(e) ==
    \A u \in AllUsers, m \in 1..MaxMovies : REq(CollaborativeScore(e, u, m), <<30, 1>>)

\* C6 as stated: an instance built from fewer than 100 rating rows has no
\* collaborative model and scores 3.0 everywhere, whatever the cache held
C6_AbsentBelowThreshold ==
    \A i \in DOMAIN eng :
        (Ready(i) /\ Cardinality(eng[i].ratings_df) < 100) =>
            /\ ~eng[i].svd_model.present
            /\ NeutralScores(eng[i])

\* C6 amended: a construction that reads fewer than 100 rating rows and finds
\* no collaborative artifact in the cache trains nothing: it writes no
\* artifact, the instance has no model and every collaborative score is 3.0
C6_AbsentBelowThresholdOnMiss ==
    [][\A i \in DOMAIN eng :
          (/\ eng[i].pc = "loading"
           /\ eng'[i].pc = "ready"
           /\ Cardinality(eng'[i].ratings_df) < 100
           /\ ~svdFile.exists)
          => /\ svdFile' = svdFile
             /\ ~eng'[i].svd_model.present
             /\ NeutralScores(eng'[i])]_vars

\* an instance built from 99 rows on an empty cache: no model, nothing stored
C6_Witness ==
    \E i \in DOMAIN eng :
        /\ Ready(i)
        /\ Cardinality(eng[i].ratings_df) = 99
        /\ ~eng[i].svd_model.present
        /\ ~svdFile.exists

\* the hybrid score the claim gives for a record: 0.4 * content + 0.6 *
\* collaborative, plus 0.2 when listed
BoostedScore(rec, listed) ==
    LET base == RAdd(RMul(<<4, 10>>, rec.content_score), RMul(<<6, 10>>, rec.collab_score))
    IN  IF listed THEN RAdd(base, <<2, 1>>) ELSE base

\* the watchlist snapshot with k entries for the pair, all else kept
WithEntries(e, u, m, k) ==
    [e EXCEPT !.watchlist_df =
        {w \in e.watchlist_df : ~(w.user_id = u /\ w.movie_id = m)}
        \cup {[user_id |-> u, movie_id |-> m, entry |-> j] : j \in 1..k}]

\* the watchlist snapshot reduced to the entries of the pair
OnlyEntriesOf(e, u, m) ==
    [e EXCEPT !.watchlist_df = {w \in e.watchlist_df : w.user_id = u /\ w.movie_id = m}]

\* C7: the hybrid score of a candidate is 0.4 * content + 0.6 * collaborative,
\* and exactly 0.2 more when the (user, item) pair is in the watchlist
\* snapshot: once for any number of entries, never clamped, and unchanged by
\* the entries of other users and other items
C7_WatchlistBoost ==
    (IsList /\ response.path = "hybrid") =>
        \A k \in DOMAIN response.recs :
            LET rec == response.recs[k]
                u == response.user
                p == CHOOSE q \in DOMAIN Served.movies_df : Served.movies_df[q].id = rec.movie_id
                rated == RatedMovieIds(Served, u)
                score(e) == HybridRecord(e, u, p, rated).hybrid_score
                listed == \E w \in Served.watchlist_df :
                              w.user_id = u /\ w.movie_id = rec.movie_id
            IN  /\ rec.in_watchlist = listed
                /\ REq(rec.hybrid_score, BoostedScore(rec, listed))
                /\ REq(score(WithEntries(Served, u, rec.movie_id, 1)),
                       RAdd(score(WithEntries(Served, u, rec.movie_id, 0)), <<2, 1>>))
                /\ REq(score(WithEntries(Served, u, rec.movie_id, 2)),
                       score(WithEntries(Served, u, rec.movie_id, 1)))
                /\ REq(score(OnlyEntriesOf(Served, u, rec.movie_id)), rec.hybrid_score)

\* a ranked candidate that is on the requesting user's watchlist
C7_Witness ==
    /\ IsList /\ response.path = "hybrid"
    /\ \E k \in DOMAIN response.recs : response.recs[k].in_watchlist

\* a ranked candidate that only another user has on the watchlist
C7_WitnessOtherUser ==
    /\ IsList /\ response.path = "hybrid"
    /\ \E k \in DOMAIN response.recs :
          /\ ~response.recs[k].in_watchlist
          /\ \E w \in Served.watchlist_df : w.movie_id = response.recs[k].movie_id

\* the position of a catalog item in the item snapshot
PosOf(e, id) == CHOOSE p \in DOMAIN e.movies_df : e.movies_df[p].id = id

\* the positions of the items the user has rated that are in the catalog
RatedPos(e, u) == {PosOf(e, id) : id \in RatedBy(e, u) \cap CatalogIds(e)}

RECURSIVE SumSim(_, _, _)
SumSim(e, p, cols) ==
    IF cols = {} THEN 0
    ELSE LET c == CHOOSE x \in cols : TRUE
         IN  e.content_similarity[p][c] + SumSim(e, p, cols \ {c})

\* content: the mean similarity to the rated catalog items, 0 when there is none
MeanSimilarity(e, u, p) ==
    IF RatedPos(e, u) = {} THEN <<0, 1>>
    ELSE <<SumSim(e, p, RatedPos(e, u)), Cardinality(RatedPos(e, u))>>

\* collaborative: the prediction of the model, 3.0 without one
Collaborative(e, u, id) ==
    IF e.svd_model.present THEN <<SvdPredict(e.svd_model, u, id).est, 1>> ELSE <<30, 1>>

\* hybrid = 0.4 * (5 * content) + 0.6 * collaborative (+ 0.2 if watchlisted)
Hybrid(e, u, p) ==
    LET base == RAdd(RMul(<<4, 10>>, RMul(<<5, 1>>, MeanSimilarity(e, u, p))),
                     RMul(<<6, 10>>, Collaborative(e, u, e.movies_df[p].id)))
    IN  IF \E w \in e.watchlist_df : w.user_id = u /\ w.movie_id = e.movies_df[p].id
        THEN RAdd(base, <<2, 1>>) ELSE base

CandidatePos(e, u) == {p \in DOMAIN e.movies_df : e.movies_df[p].id \notin RatedBy(e, u)}

\* q is ranked before p: a greater score, or an equal one earlier in the snapshot
RankedBefore(e, u, q, p) ==
    \/ RLess(Hybrid(e, u, p), Hybrid(e, u, q))
    \/ REq(Hybrid(e, u, p), Hybrid(e, u, q)) /\ q < p

\* the scenario of the claim: catalog A, B, C = 1, 2, 3, the user rated only A,
\* similarity(A, B) = 0.8, similarity(A, C) = 0.1, no collaborative model, n = 2,
\* B not on the user's watchlist
Scenario ==
    /\ IsList /\ response.path = "hybrid" /\ response.n = 2
    /\ [p \in DOMAIN Served.movies_df |-> Served.movies_df[p].id] = <<1, 2, 3>>
    /\ RatedBy(Served, response.user) = {1}
    /\ ~Served.svd_model.present
    /\ Served.content_similarity[2][1] = 8
    /\ Served.content_similarity[3][1] = 1
    /\ ~\E w \in Served.watchlist_df : w.user_id = response.user /\ w.movie_id = 2

ScenarioListed ==
    \E w \in Served.watchlist_df : w.user_id = response.user /\ w.movie_id = 3

\* C8: a hybrid request returns the first n unrated catalog items in
\* descending order of hybrid = 0.4 * (5 * content) + 0.6 * collaborative
\* (+ 0.2 if watchlisted), equal scores in item-snapshot order; in the scenario
\* hybrid(B) = 3.4, hybrid(C) = 2.0, or 2.2 when C is watchlisted, and the
\* result is [B, C]
C8_HybridRanking ==
    /\ (IsList /\ response.path = "hybrid") =>
          /\ Len(response.ids) = Min2(response.n, Cardinality(CandidatePos(Served, response.user)))
          /\ \A k \in DOMAIN response.ids :
                /\ response.ids[k] \in CatalogIds(Served)
                /\ PosOf(Served, response.ids[k]) \in CandidatePos(Served, response.user)
                /\ Cardinality({q \in CandidatePos(Served, response.user) :
                                   RankedBefore(Served, response.user, q,
                                                PosOf(Served, response.ids[k]))}) = k - 1
          /\ \A k \in DOMAIN response.recs :
                REq(response.recs[k].hybrid_score,
                    Hybrid(Served, response.user, PosOf(Served, response.recs[k].movie_id)))
    /\ Scenario =>
          /\ response.ids = <<2, 3>>
          /\ REq(Hybrid(Served, response.user, 2), <<34, 1>>)
          /\ REq(Hybrid(Served, response.user, 3), IF ScenarioListed THEN <<22, 1>> ELSE <<20, 1>>)
          /\ REq(response.recs[1].hybrid_score, <<34, 1>>)
          /\ REq(response.recs[2].hybrid_score, IF ScenarioListed THEN <<22, 1>> ELSE <<20, 1>>)

\* the scenario with C on the user's watchlist: [B, C] all the same
C8_Witness == Scenario /\ ScenarioListed /\ response.ids = <<2, 3>>

\* the scenario without a watchlist entry
C8_WitnessPlain == Scenario /\ ~ScenarioListed

\* two candidates of equal score, returned in item-snapshot order
C8_WitnessTie ==
    /\ IsList /\ response.path = "hybrid" /\ Len(response.ids) = 2
    /\ REq(response.recs[1].hybrid_score, response.recs[2].hybrid_score)
    /\ PosOf(Served, response.ids[1]) < PosOf(Served, response.ids[2])

\* the mean taken over two rated items
C8_WitnessMean ==
    /\ IsList /\ response.path = "hybrid" /\ response.ids # <<>>
    /\ Cardinality(RatedPos(Served, response.user)) = 2

\* rating_count(item) * mean_rating(item) in the snapshot, 0 for an item without ratings
PopularityValue(e, id) ==
    LET rows == {r \in e.ratings_df : r.movie_id = id}
    IN  IF rows = {} THEN <<0, 1>>
        ELSE RMul(<<Cardinality(rows), 1>>, <<SumRatings(rows), Cardinality(rows)>>)

NonIncreasing(e, ids) ==
    \A a, b \in DOMAIN ids :
        a < b => ~RLess(PopularityValue(e, ids[a]), PopularityValue(e, ids[b]))

\* no item of the set that was left out is more popular than a returned one
TopOf(e, ids, items) ==
    \A m \in items \ Range(ids), k \in DOMAIN ids :
        ~RLess(PopularityValue(e, ids[k]), PopularityValue(e, m))

IsPopular == IsList /\ response.path = "popular"

\* C9 as stated: the popularity list is the top n of the catalog, min(n,
\* catalog size) long, in non-increasing order of count * mean
C9_PopularTopNOfCatalog ==
    IsPopular =>
        /\ Len(response.ids) = Min2(response.n, Cardinality(CatalogIds(Served)))
        /\ Range(response.ids) \subseteq CatalogIds(Served)
        /\ NonIncreasing(Served, response.ids)
        /\ TopOf(Served, response.ids, CatalogIds(Served))

RatedIds(e) == {r.movie_id : r \in e.ratings_df}

\* C9 amended: the popularity list is the top n of the item identifiers that
\* have a rating row in the snapshot, min(n, number of such identifiers) long,
\* without duplicates, in non-increasing order of count * mean
C9_PopularTopNOfRated ==
    IsPopular =>
        /\ Len(response.ids) = Min2(response.n, Cardinality(RatedIds(Served)))
        /\ NoDuplicates(response.ids)
        /\ Range(response.ids) \subseteq RatedIds(Served)
        /\ NonIncreasing(Served, response.ids)
        /\ TopOf(Served, response.ids, RatedIds(Served))

\* two rated items of different popularity, the more popular first
C9_Witness ==
    /\ IsPopular /\ Len(response.ids) = 2
    /\ RLess(PopularityValue(Served, response.ids[2]), PopularityValue(Served, response.ids[1]))

\* a cut that leaves a rated item out
C9_WitnessCut ==
    /\ IsPopular /\ response.ids # <<>>
    /\ RatedIds(Served) \ Range(response.ids) # {}

\* the matrix a content artifact stores: its buffer read row by row
StoredSimilarity(file) ==
    [r \in 1..file.shape[1] |-> [c \in 1..file.shape[2] |->
        file.data[(r - 1) * file.shape[2] + c]]]

SameSnapshots(e1, e2) ==
    /\ e1.movies_df = e2.movies_df
    /\ e1.ratings_df = e2.ratings_df
    /\ e1.watchlist_df = e2.watchlist_df

\* the models of instance e are the ones the cache stores
HoldsStored(e, cfile, sfile) ==
    /\ cfile.exists
    /\ e.content_similarity = StoredSimilarity(cfile)
    /\ IF sfile.exists THEN e.svd_model.present /\ e.svd_model.fit = sfile.fit
       ELSE ~e.svd_model.present

\* two instances score and rank alike for every user with ratings and every n
SameScores(e1, e2) ==
    \A u \in AllUsers :
        UserRatings(e1, u) # {} =>
            /\ \A n \in 0..MaxN : HybridOutcome(e1, u, n) = HybridOutcome(e2, u, n)
            /\ \A m \in CatalogIds(e1) : CollaborativeScore(e1, u, m) = CollaborativeScore(e2, u, m)

\* C10: a construction that finds an artifact adopts exactly what is stored and
\* leaves the file as it is, whatever the snapshot; a construction that builds
\* stores exactly what it holds; so an instance that reloads over the same
\* snapshots scores and ranks as the instance whose models are stored
C10_CacheRoundTrip ==
    [][\A i \in DOMAIN eng :
          (eng[i].pc = "loading" /\ eng'[i].pc = "ready") =>
             /\ contentFile.exists =>
                   /\ contentFile' = contentFile
                   /\ eng'[i].content_similarity = StoredSimilarity(contentFile)
                   /\ eng'[i].tfidf_vectorizer = contentFile.vectorizer
                   /\ eng'[i].tfidf_matrix = contentFile.matrix
             /\ svdFile.exists =>
                   /\ svdFile' = svdFile
                   /\ eng'[i].svd_model.present
                   /\ eng'[i].svd_model.fit = svdFile.fit
             /\ ~contentFile.exists =>
                   /\ contentFile'.exists
                   /\ StoredSimilarity(contentFile') = eng'[i].content_similarity
                   /\ contentFile'.vectorizer = eng'[i].tfidf_vectorizer
                   /\ contentFile'.matrix = eng'[i].tfidf_matrix
             /\ (~svdFile.exists /\ eng'[i].svd_model.present) =>
                   svdFile'.exists /\ svdFile'.fit = eng'[i].svd_model.fit
             /\ \A j \in DOMAIN eng :
                   (/\ j # i /\ Ready(j)
                    /\ HoldsStored(eng[j], contentFile, svdFile)
                    /\ SameSnapshots(eng[j], eng'[i]))
                   => SameScores(eng[j], eng'[i])]_vars

\* the second instance adopted the stored models over a different item snapshot
C10_Witness ==
    /\ Ready(1) /\ Ready(2)
    /\ eng[1].movies_df # <<>>
    /\ eng[2].movies_df # eng[1].movies_df
    /\ eng[2].content_similarity = eng[1].content_similarity
    /\ eng[1].svd_model.present /\ eng[2].svd_model = eng[1].svd_model

\* the second instance reloaded over the same snapshots, a user of them has ratings
C10_WitnessRoundTrip ==
    /\ Ready(1) /\ Ready(2)
    /\ SameSnapshots(eng[1], eng[2])
    /\ eng[1].svd_model.present /\ eng[2].svd_model.present
    /\ \E u \in Users : UserRatings(eng[2], u) # {} /\ Len(eng[2].movies_df) > 1

\* the file is there and its bytes are not the ones that were dumped
Corrupt(file) == file.exists /\ ~file.intact

\* the file is there and pickle cannot read it to its end
Unreadable(file) == file.exists /\ ~file.complete

\* the construction of instance i ends in this step
Constructs(i) == eng[i].pc = "loading" /\ eng'[i].pc # "loading"

\* C11: a construction that finds a corrupt or unreadable artifact of either
\* kind fails, no instance becomes available, and the artifact stays as it was
C11_CorruptFailsConstruction ==
    [][\A i \in DOMAIN eng :
          (Constructs(i) /\ (Corrupt(contentFile) \/ Corrupt(svdFile))) =>
             /\ eng'[i].pc = "failed"
             /\ Corrupt(contentFile) => contentFile' = contentFile
             /\ Corrupt(svdFile) => svdFile' = svdFile]_vars

\* what holds of the code: an artifact pickle cannot read to its end fails the
\* construction, is not replaced by a rebuild and stays as it was
C11_UnreadableFailsConstruction ==
    [][\A i \in DOMAIN eng :
          (Constructs(i) /\ (Unreadable(contentFile) \/ Unreadable(svdFile))) =>
             /\ eng'[i].pc = "failed"
             /\ eng'[i].svd_model = NoModel
             /\ eng'[i].content_similarity # <<>> => ~Unreadable(contentFile)
             /\ Unreadable(contentFile) => contentFile' = contentFile
             /\ Unreadable(svdFile) => svdFile' = svdFile]_vars

\* a construction failed on a file cut short
C11_WitnessUnreadable ==
    \E i \in DOMAIN eng :
        eng[i].pc = "failed" /\ (Unreadable(contentFile) \/ Unreadable(svdFile))

\* an instance serves with a model object of another class
C11_WitnessForeign ==
    \E i \in DOMAIN eng : Ready(i) /\ eng[i].svd_model.present /\ eng[i].svd_model.cls # "SVD"

\* the ratings of the scale: 1.0, 1.5, ..., 5.0
HalfSteps == {t \in MinValue..MaxValue : (t - MinValue) % WidgetStep = 0}

Submitted == response.kind = "form"

\* C12: RatingForm accepts a submitted rating exactly when it is a number of
\* [1.0, 5.0] on the 0.5 step, so every stored rating is one of 1.0, 1.5, ..., 5.0
C12_AcceptsExactlyHalfSteps ==
    /\ Submitted =>
          (response.valid <=>
              (response.input.kind = "number" /\ response.input.tenths \in HalfSteps))
    /\ \A r \in OwnRatings : r.rating \in HalfSteps

\* what holds of the code: accepted exactly when a number of [1.0, 5.0]
C12_AcceptsExactlyRange ==
    /\ Submitted =>
          (response.valid <=>
              (response.input.kind = "number"
               /\ MinValue <= response.input.tenths /\ response.input.tenths <= MaxValue))
    /\ \A r \in OwnRatings : MinValue <= r.rating /\ r.rating <= MaxValue

\* a rating off the step was accepted and stored
C12_WitnessOffStep ==
    /\ Submitted /\ response.valid /\ response.input.tenths \notin HalfSteps
    /\ \E r \in OwnRatings : r.rating = response.input.tenths

\* the rejections of the form's test: below, above, not a number
C12_WitnessRejected ==
    /\ Submitted /\ ~response.valid
    /\ response.input.kind = "number" /\ response.input.tenths > MaxValue

\* the construction observed a miss of the content artifact, rebuilt, and has
\* not finished its write
WritingContent(i) == eng[i].pc \in {"content_open", "content_dump"}

\* the same for the collaborative artifact
WritingSvd(i) == eng[i].pc \in {"svd_open", "svd_dump"}

BuiltOnOwnSnapshot(e) ==
    e.content_similarity =
        [r \in DOMAIN e.movies_df |-> [c \in DOMAIN e.movies_df |->
            CosSim(e.movies_df[r].content, e.movies_df[c].content)]]

\* C13: nothing makes a construction wait for another one: whatever the other
\* constructions are doing, also between their cache miss and the end of their
\* write, the next step of a construction can be taken, and a construction
\* that missed holds a model it built from its own snapshot
C13_ConstructionUnguarded ==
    \A i \in DOMAIN eng :
        /\ eng[i].pc = "content" => ENABLED ContentCheck(i)
        /\ eng[i].pc = "content_open" => ENABLED ContentOpen(i)
        /\ eng[i].pc = "content_dump" => ENABLED ContentDump(i)
        /\ eng[i].pc = "svd" => ENABLED SvdCheck(i)
        /\ eng[i].pc = "svd_open" => ENABLED SvdOpen(i)
        /\ eng[i].pc = "svd_dump" => ENABLED SvdDump(i)
        /\ WritingContent(i) => BuiltOnOwnSnapshot(eng[i])

\* both constructions missed the content artifact, rebuilt from different
\* snapshots, and have the file open for writing at the same time
C13_Witness ==
    /\ eng[1].pc = "content_dump" /\ eng[2].pc = "content_dump"
    /\ eng[1].content_similarity # eng[2].content_similarity

\* the same for the collaborative artifact
C13_WitnessSvd ==
    /\ eng[1].pc = "svd_dump" /\ eng[2].pc = "svd_dump"
    /\ eng[1].svd_model # eng[2].svd_model

\* a construction found the file another one had opened and not yet written
C13_WitnessReader ==
    \E i, j \in DOMAIN eng :
        /\ eng[i].pc = "content_dump" /\ ~contentFile.complete
        /\ eng[j].pc = "failed" /\ eng[j].movies_df # <<>>

\* the artifact of the construction that wrote last replaces the other
C13_WitnessOverwrite ==
    /\ Ready(1) /\ Ready(2) /\ contentFile.complete
    /\ BuiltOnOwnSnapshot(eng[1]) /\ BuiltOnOwnSnapshot(eng[2])
    /\ eng[1].content_similarity # eng[2].content_similarity
    /\ StoredSimilarity(contentFile) = eng[1].content_similarity

\* this step is a call of get_recommendations
Requests == response.kind = "none" /\ response'.kind \in {"list", "error"}

\* what the request returns when it is the only one the instance ever serves
AnswerAlone(e, u, n) ==
    [kind |-> HybridOutcome(e, u, n).kind, ids |-> HybridOutcome(e, u, n).ids,
     error |-> HybridOutcome(e, u, n).error]

\* C14: a call of get_recommendations, on either path and whatever it returns,
\* leaves the instance, the cache files and the tables as they were; a
\* constructed instance is never changed by any step; so a hybrid-path request
\* returns, after any requests and writes before it, what it returns alone
C14_RequestsReadOnly ==
    [][/\ Requests =>
            /\ eng' = eng
            /\ contentFile' = contentFile /\ svdFile' = svdFile
            /\ movies' = movies /\ ratings' = ratings /\ watchlist' = watchlist
            /\ response'.path = "hybrid" =>
                  [kind |-> response'.kind, ids |-> response'.ids, error |-> response'.error]
                      = AnswerAlone(eng'[response'.eng], response'.user, response'.n)
       /\ \A i \in DOMAIN eng : Ready(i) => eng'[i] = eng[i]]_vars

\* a hybrid-path answer from an instance whose tables have changed since it
\* was constructed
C14_Witness ==
    /\ IsList /\ response.path = "hybrid" /\ response.ids # <<>>
    /\ ratings # Served.ratings_df

\* a cold-start answer in the same situation
C14_WitnessCold ==
    /\ IsList /\ response.path = "popular" /\ response.ids # <<>>
    /\ ratings # Served.ratings_df

\* the similarity matrix of e is square, one row and one column per item of
\* its item snapshot
MatrixFitsSnapshot(e) ==
    /\ Len(e.content_similarity) = Len(e.movies_df)
    /\ \A r \in DOMAIN e.content_similarity :
           Len(e.content_similarity[r]) = Len(e.movies_df)

IndexingFailure == response.kind = "error" /\ response.error = "IndexError"

\* C15: in every constructed instance the similarity matrix is square with one
\* row per item of the instance's item snapshot, built or loaded, so no
\* hybrid-path request ends in an indexing failure
C15_MatrixFitsSnapshot ==
    /\ \A i \in DOMAIN eng : Ready(i) => MatrixFitsSnapshot(eng[i])
    /\ ~IndexingFailure

\* what holds of the code: a construction that finds no content artifact ends
\* with a matrix that fits its snapshot, and a request fails on an index only
\* when served from a matrix that does not fit
C15_BuiltMatrixFitsSnapshot ==
    [][/\ \A i \in DOMAIN eng :
             (Constructs(i) /\ eng'[i].pc = "ready" /\ ~contentFile.exists) =>
                 MatrixFitsSnapshot(eng'[i])
       /\ (Requests /\ MatrixFitsSnapshot(eng[response'.eng])) =>
             ~(response'.kind = "error" /\ response'.error = "IndexError")]_vars

\* an instance loaded a matrix smaller than its item snapshot and a request
\* of a user with ratings failed on it
C15_WitnessStale ==
    /\ IndexingFailure
    /\ Len(Served.content_similarity) < Len(Served.movies_df)

====
